---- MODULE Spec2Model ----
(***************************************************************************)
(* Model of Account_Summary_MP_to_XLSX.py: the statement-text parser       *)
(* (combine_broken_lines, extract_fields_from_line, the value normalizer)  *)
(* and the temporary-file handling of process_uploaded_files.              *)
(*                                                                         *)
(* A Python str is a sequence of one-character strings.  Python indices    *)
(* are kept 0-based; Slice(s, a, b) is s[a:b].                             *)
(***************************************************************************)
EXTENDS Integers, Sequences, FiniteSets, TLC

VARIABLES
    pc,              \* the position inside the function being run
    money_str,       \* convert_money_to_number's argument (line 104)
    number,          \* convert_money_to_number's result (line 105)
    balance,         \* the results of successive clean_balance calls (lines 108-113)
    line,            \* extract_fields_from_line's argument (line 76)
    fields,          \* extract_fields_from_line's result (line 46)
    text,            \* pdf_text_to_dataframe's argument (line 42)
    combined_lines,  \* the logical lines (line 43)
    idx,             \* how many logical lines the loop of line 45 has read
    data,            \* the rows collected so far (lines 44-48)
    uploaded_files,  \* process_uploaded_files' argument (line 141)
    fi,              \* how many uploaded files the loop of line 156 has read
    temp_files,      \* the registered temporary file names (line 153)
    disk,            \* the temporary files of this call that exist
    texts,           \* the (name, text) pairs to parse (line 151)
    total_lines,     \* line 152
    dfs,             \* the parsed tables (line 184)
    outcome          \* how the call ended: "returned" or "raised"

vars == <<pc, money_str, number, balance, line, fields,
          text, combined_lines, idx, data,
          uploaded_files, fi, temp_files, disk, texts, total_lines, dfs, outcome>>

moneyVars == <<money_str, number, balance>>
lineVars == <<line, fields>>
textVars == <<text, combined_lines, idx, data>>
fileVars == <<uploaded_files, fi, temp_files, disk, texts, total_lines, dfs, outcome>>

-----------------------------------------------------------------------------
(* Python str primitives *)

\* Python's None (extract_fields_from_line's no-match); every record has five fields
None == <<>>

Digits == {"0", "1", "2", "3", "4", "5", "6", "7", "8", "9"}

Whitespace == {" ", "\t", "\n", "\r"}

IsDigit(c) == c \in Digits

\* s[a:b] for 0 <= a, and b either >= 0 or negative (counted from the end)
Slice(s, a, b) ==
    LET e == IF b < 0 THEN Len(s) + b ELSE b
        hi == IF e > Len(s) THEN Len(s) ELSE e
    IN  IF hi <= a THEN <<>> ELSE SubSeq(s, a + 1, hi)

\* s[a:]
SliceFrom(s, a) == Slice(s, a, Len(s))

RECURSIVE LStrip(_)
LStrip(s) == IF s # <<>> /\ Head(s) \in Whitespace THEN LStrip(Tail(s)) ELSE s

RECURSIVE RStrip(_)
RStrip(s) ==
    IF s # <<>> /\ s[Len(s)] \in Whitespace THEN RStrip(SubSeq(s, 1, Len(s) - 1)) ELSE s

\* str.strip()
Strip(s) == RStrip(LStrip(s))

\* str.replace(old, new) for a one-character old and a new of length 0 or 1
RECURSIVE Replace(_, _, _)
Replace(s, old, new) ==
    IF s = <<>> THEN <<>>
    ELSE (IF Head(s) = old THEN new ELSE <<Head(s)>>) \o Replace(Tail(s), old, new)

\* c in s
Contains(s, c) == \E i \in 1..Len(s) : s[i] = c

\* s.index(c) where c occurs in s: the 0-based position of its first occurrence
Index(s, c) == (CHOOSE i \in 1..Len(s) : s[i] = c /\ \A j \in 1..(i - 1) : s[j] # c) - 1

\* a slip of Rfind: s.find(sub), the lowest start of an occurrence
Find(s, sub) ==
    LET occ == {i \in 0..(Len(s) - Len(sub)) : Slice(s, i, i + Len(sub)) = sub}
    IN  IF occ = {} THEN -1 ELSE CHOOSE i \in occ : \A j \in occ : i <= j

\* s.rfind(sub): the highest 0-based start of an occurrence of sub in s, or -1
Rfind(s, sub) ==
    LET occ == {i \in 0..(Len(s) - Len(sub)) : Slice(s, i, i + Len(sub)) = sub}
    IN  IF occ = {} THEN -1 ELSE CHOOSE i \in occ : \A j \in occ : j <= i

\* s.split(sep) for a one-character sep: always at least one piece
RECURSIVE SplitFrom(_, _, _)
SplitFrom(s, sep, cur) ==
    IF s = <<>> THEN <<cur>>
    ELSE IF Head(s) = sep THEN <<cur>> \o SplitFrom(Tail(s), sep, <<>>)
    ELSE SplitFrom(Tail(s), sep, Append(cur, Head(s)))

Split(s, sep) == SplitFrom(s, sep, <<>>)

-----------------------------------------------------------------------------
(* Compiled patterns *)

\* a slip of date_pattern: a two-digit year, ^\d{2}-\d{2}-\d{2}
date_pattern_short_year(s) ==
    /\ Len(s) >= 8
    /\ \A i \in {1, 2, 4, 5, 7, 8} : IsDigit(s[i])
    /\ s[3] = "-"
    /\ s[6] = "-"

\* date_pattern = ^\d{2}-\d{2}-\d{4}; match and search agree because of the ^
date_pattern(s) ==
    /\ Len(s) >= 10
    /\ \A i \in {1, 2, 4, 5, 7, 8, 9, 10} : IsDigit(s[i])
    /\ s[3] = "-"
    /\ s[6] = "-"

\* date_match.end() of a match of date_pattern
DateEnd == 10

\* id_pattern.findall(s): the maximal digit runs of s, left to right
RECURSIVE FindDigitRuns(_, _, _)
FindDigitRuns(s, cur, acc) ==
    IF s = <<>> THEN (IF cur = <<>> THEN acc ELSE Append(acc, cur))
    ELSE IF IsDigit(Head(s)) THEN FindDigitRuns(Tail(s), Append(cur, Head(s)), acc)
    ELSE FindDigitRuns(Tail(s), <<>>, IF cur = <<>> THEN acc ELSE Append(acc, cur))

id_pattern_findall(s) == FindDigitRuns(s, <<>>, <<>>)

\* [m.start() for m in money_pattern.finditer(s)]: the 0-based positions of "$"
RECURSIVE MoneyStarts(_, _)
MoneyStarts(s, from) ==
    IF from >= Len(s) THEN <<>>
    ELSE (IF s[from + 1] = "$" THEN <<from>> ELSE <<>>) \o MoneyStarts(s, from + 1)

money_pattern_finditer(s) == MoneyStarts(s, 0)

-----------------------------------------------------------------------------
(* Value normalizer *)

\* a slip of convert_money_to_number: the decimal comma is rewritten before the
\* thousands separator is removed
convert_money_comma_first(s) ==
    Strip(Replace(Replace(Replace(s, "$", <<>>), ",", <<".">>), ".", <<>>))

convert_money_to_number(s) ==
    Strip(Replace(Replace(Replace(s, "$", <<>>), ".", <<>>), ",", <<".">>))

\* a slip of clean_balance: drops one surplus character instead of cutting at
\* the second decimal
clean_balance_drop_one(s) ==
    IF Contains(s, ".")
    THEN LET decimal_pos == Index(s, ".")
         IN  IF Len(s) > decimal_pos + 3 THEN Slice(s, 0, Len(s) - 1) ELSE s
    ELSE s

\* a slip of clean_balance: cuts one character too late
clean_balance_keep_three(s) ==
    IF Contains(s, ".")
    THEN LET decimal_pos == Index(s, ".")
         IN  IF Len(s) > decimal_pos + 3 THEN Slice(s, 0, decimal_pos + 4) ELSE s
    ELSE s

clean_balance(s) ==
    IF Contains(s, ".")
    THEN LET decimal_pos == Index(s, ".")
         IN  IF Len(s) > decimal_pos + 3 THEN Slice(s, 0, decimal_pos + 3) ELSE s
    ELSE s

-----------------------------------------------------------------------------
(* Field extractor *)

extract_fields_from_line(l) ==
    IF ~date_pattern(l) THEN None
    ELSE
    LET date == Slice(l, 0, DateEnd)
        rest_of_line == Strip(SliceFrom(l, DateEnd))
        money_matches == money_pattern_finditer(rest_of_line)
    IN  IF Len(money_matches) < 2 THEN None
        ELSE
        LET first_money == money_matches[1]
            second_money == money_matches[2]
            before_money == Strip(Slice(rest_of_line, 0, first_money))
            value_str == Strip(Slice(rest_of_line, first_money, second_money))
            balance_str == Strip(SliceFrom(rest_of_line, second_money))
            id_matches == id_pattern_findall(before_money)
        IN  IF id_matches = <<>> THEN None
            ELSE
            LET operation_id == id_matches[Len(id_matches)]
                description ==
                    Strip(Slice(before_money, 0, Rfind(before_money, operation_id)))
                value == convert_money_to_number(value_str)
                balance_0 == convert_money_to_number(balance_str)
                balance_1 == clean_balance(balance_0)
            IN  <<date, description, operation_id, value, balance_1>>

-----------------------------------------------------------------------------
(* Line reconstructor and the parse pass *)

\* a slip of CombineLoop: the accumulator left at the end of the input is not flushed
RECURSIVE CombineLoopNoFinalFlush(_, _, _)
CombineLoopNoFinalFlush(lines, current_line, combined) ==
    IF lines = <<>> THEN combined
    ELSE IF date_pattern(Head(lines))
    THEN CombineLoopNoFinalFlush(Tail(lines), Head(lines),
             IF current_line # <<>> THEN Append(combined, Strip(current_line))
             ELSE combined)
    ELSE CombineLoopNoFinalFlush(Tail(lines), current_line \o <<" ">> \o Head(lines), combined)

\* the for loop of combine_broken_lines over the raw lines still to read, and the
\* flush after it
RECURSIVE CombineLoop(_, _, _)
CombineLoop(lines, current_line, combined) ==
    IF lines = <<>>
    THEN (IF current_line # <<>> THEN Append(combined, Strip(current_line)) ELSE combined)
    ELSE IF date_pattern(Head(lines))
    THEN CombineLoop(Tail(lines), Head(lines),
             IF current_line # <<>> THEN Append(combined, Strip(current_line))
             ELSE combined)
    ELSE CombineLoop(Tail(lines), current_line \o <<" ">> \o Head(lines), combined)

combine_broken_lines(t) == CombineLoop(Split(t, "\n"), <<>>, <<>>)

\* a slip of AppendFields: the result of every line is appended, no-match included
AppendFieldsAlways(d, f) == Append(d, f)

\* if fields: data.append(fields)
AppendFields(d, f) == IF f # None THEN Append(d, f) ELSE d

\* the for loop of pdf_text_to_dataframe over the logical lines still to read
RECURSIVE ExtractLoop(_, _)
ExtractLoop(lines, d) ==
    IF lines = <<>> THEN d
    ELSE ExtractLoop(Tail(lines), AppendFields(d, extract_fields_from_line(Head(lines))))

\* the rows of the DataFrame pdf_text_to_dataframe returns
pdf_text_to_dataframe(t) == ExtractLoop(combine_broken_lines(t), <<>>)

-----------------------------------------------------------------------------
(* Inputs of the pure functions *)

\* longest text enumerated between the date and the first "$"
MaxBefore == 4

\* longest money tail (from the first "$" on) enumerated in a line
MaxMoney == 6

\* longest string enumerated as an argument of the value normalizer
MaxMoneyLen == 5

\* how many times clean_balance is applied in a row
Applications == 2

StringsUpTo(alphabet, n) == UNION {[1..k -> alphabet] : k \in 0..n}

DateTok == <<"0", "1", "-", "0", "3", "-", "2", "0", "2", "4">>

\* nothing, a date, a date behind a blank, a date with a two-digit year
Prefixes ==
    {<<>>, DateTok, <<" ">> \o DateTok, <<"0", "1", "-", "0", "3", "-", "2", "0">>}

BeforeAlphabet == {"1", "2", "a", " "}

MoneyAlphabet == {"$", ",", ".", "1"}

FewBefore == {<<" ", "a", "2", " ", "1", " ">>, <<" ", "a">>}

FewMoney == {<<"$", "1", "$", "2">>, <<"$", "1", ",", "0", " ", "$", "2", ",", "0", " ">>}

ExampleLine ==
    <<"0", "1", "-", "0", "3", "-", "2", "0", "2", "4", " ", "P", "a", "g", "o", " ",
      "d", "e", " ", "s", "e", "r", "v", "i", "c", "i", "o", "s", " ", "9", "8", "7",
      "6", "5", "4", " ", "$", "1", ".", "0", "0", "0", ",", "0", "0", "$", "5", ".",
      "4", "3", "2", ",", "1", "0">>

TruncationLine ==
    <<"0", "1", "-", "0", "3", "-", "2", "0", "2", "4", " ", "a", " ", "1", " ", "$",
      "1", "0", "0", ",", "4", "5", "6", "$", "1", "0", "0", ",", "4", "5", "6">>

\* every text before the money behind every prefix, and every money tail behind a date
Lines ==
    {p \o b \o m : p \in Prefixes, b \in StringsUpTo(BeforeAlphabet, MaxBefore), m \in FewMoney}
    \cup {DateTok \o b \o m : b \in FewBefore, m \in StringsUpTo(MoneyAlphabet, MaxMoney)}
    \cup {ExampleLine, TruncationLine}

MoneyExample1 == <<"$", "1", ".", "2", "3", "4", ",", "5", "6">>

MoneyExample2 == <<"$", "5", "0", ",", "0", "0">>

MoneyStrs ==
    StringsUpTo({"$", ",", ".", "1", " "}, MaxMoneyLen) \cup {MoneyExample1, MoneyExample2}

-----------------------------------------------------------------------------
(* Specification of the pure functions: one line or one money string in,    *)
(* the function applied to it                                               *)

InitFields ==
    /\ \/ /\ pc = "line"
          /\ line \in Lines
          /\ money_str = <<>>
       \/ /\ pc = "money"
          /\ money_str \in MoneyStrs
          /\ line = <<>>
    /\ fields = None
    /\ number = <<>>
    /\ balance = <<>>
    /\ text = <<>>
    /\ combined_lines = <<>>
    /\ idx = 0
    /\ data = <<>>
    /\ uploaded_files = <<>>
    /\ fi = 0
    /\ temp_files = <<>>
    /\ disk = {}
    /\ texts = <<>>
    /\ total_lines = 0
    /\ dfs = <<>>
    /\ outcome = "none"

\* fields = extract_fields_from_line(line)
ExtractFields ==
    /\ pc = "line"
    /\ fields' = extract_fields_from_line(line)
    /\ pc' = "extracted"
    /\ UNCHANGED <<line, moneyVars, textVars, fileVars>>

\* number = convert_money_to_number(money_str)
ConvertMoney ==
    /\ pc = "money"
    /\ number' = convert_money_to_number(money_str)
    /\ pc' = "converted"
    /\ UNCHANGED <<money_str, balance, lineVars, textVars, fileVars>>

\* balance_str = clean_balance(balance_str), on the raw string or on the converted
\* number, and again on its own result
CleanBalance ==
    /\ pc \in {"money", "converted", "cleaned"}
    /\ Len(balance) < Applications
    /\ LET arg == IF balance # <<>> THEN balance[Len(balance)]
                  ELSE IF pc = "money" THEN money_str ELSE number
       IN  balance' = Append(balance, clean_balance(arg))
    /\ pc' = "cleaned"
    /\ UNCHANGED <<money_str, number, lineVars, textVars, fileVars>>

NextFields == ExtractFields \/ ConvertMoney \/ CleanBalance

SpecFields == InitFields /\ [][NextFields]_vars

-----------------------------------------------------------------------------
(* Vocabulary of the claims about one line, written against the line's text  *)
(* and not against the extractor's intermediate values                       *)

CountOf(s, c) == Cardinality({i \in 1..Len(s) : s[i] = c})

\* 1-based position of the first c in s (c occurs in s)
FirstPos(s, c) == CHOOSE i \in 1..Len(s) : s[i] = c /\ \A j \in 1..(i - 1) : s[j] # c

\* 1-based position of the second c in s (c occurs twice in s)
SecondPos(s, c) ==
    CHOOSE i \in 1..Len(s) : s[i] = c /\ CountOf(SubSeq(s, 1, i - 1), c) = 1

HasLeadingDate(l) ==
    /\ Len(l) >= 10
    /\ \A i \in 1..10 : IF i \in {3, 6} THEN l[i] = "-" ELSE l[i] \in Digits

IsDateToken(d) == Len(d) = 10 /\ HasLeadingDate(d)

Remainder(l) == SubSeq(l, 11, Len(l))

BeforeFirstMoney(l) == SubSeq(Remainder(l), 1, FirstPos(Remainder(l), "$") - 1)

ValueSpan(l) ==
    SubSeq(Remainder(l), FirstPos(Remainder(l), "$"), SecondPos(Remainder(l), "$") - 1)

BalanceSpan(l) == SubSeq(Remainder(l), SecondPos(Remainder(l), "$"), Len(Remainder(l)))

HasDigit(s) == \E i \in 1..Len(s) : s[i] \in Digits

IsDigitString(s) == \A i \in 1..Len(s) : s[i] \in Digits

\* the conditions under which a line is unparseable
Unparseable(l) ==
    \/ ~HasLeadingDate(l)
    \/ CountOf(Remainder(l), "$") < 2
    \/ ~HasDigit(BeforeFirstMoney(l))

\* 1-based position of the last digit of s, and of the start of the digit run it ends
LastDigit(s) == CHOOSE i \in 1..Len(s) : s[i] \in Digits /\ ~HasDigit(SubSeq(s, i + 1, Len(s)))

RunStart(s) ==
    CHOOSE i \in 1..LastDigit(s) :
        /\ IsDigitString(SubSeq(s, i, LastDigit(s)))
        /\ (i = 1 \/ s[i - 1] \notin Digits)

\* how many characters follow the first "." of s (0 when there is none)
AfterFirstDot(s) == IF CountOf(s, ".") = 0 THEN 0 ELSE Len(s) - FirstPos(s, ".")

\* s with every "$" and "." removed and every "," turned into "."
Renormalized(s) ==
    LET kept == SelectSeq(s, LAMBDA c : c \notin {"$", "."})
    IN  [i \in 1..Len(kept) |-> IF kept[i] = "," THEN "." ELSE kept[i]]

-----------------------------------------------------------------------------
\* C1: extract_fields_from_line returns None exactly when the line has no leading
\* date, its remainder has fewer than two "$", or the text before the first "$" has
\* no digit; otherwise it returns five fields, the date a DD-MM-YYYY token and the
\* operation_id a non-empty digit string.
C1_NoMatchExactlyWhenUnparseable ==
    pc = "extracted" =>
        IF Unparseable(line) THEN fields = None
        ELSE /\ Len(fields) = 5
             /\ IsDateToken(fields[1])
             /\ fields[3] # <<>>
             /\ IsDigitString(fields[3])

\* a dated line with two "$" and no digit before the first has been rejected
C1_Witness ==
    /\ pc = "extracted"
    /\ HasLeadingDate(line)
    /\ CountOf(Remainder(line), "$") >= 2
    /\ ~HasDigit(BeforeFirstMoney(line))
    /\ BeforeFirstMoney(line) # <<>>
    /\ fields = None

\* C5: operation_id is the last maximal digit run of the text before the first "$"
\* and description is the trimmed text before that run, also when the same digits
\* occur earlier or inside another digit run.
C5_IdIsLastDigitRun ==
    (pc = "extracted" /\ fields # None) =>
        LET b == BeforeFirstMoney(line)
        IN  /\ fields[3] = SubSeq(b, RunStart(b), LastDigit(b))
            /\ fields[2] = Strip(SubSeq(b, 1, RunStart(b) - 1))

\* a record whose operation_id digits also occur earlier, inside a longer digit run
C5_Witness ==
    /\ pc = "extracted"
    /\ fields # None
    /\ LET b == BeforeFirstMoney(line)
           n == Len(fields[3])
       IN  \E i \in 2..(RunStart(b) - 1) :
               /\ SubSeq(b, i, i + n - 1) = fields[3]
               /\ b[i - 1] \in Digits

\* C6: the balance of a record has at most two characters after its first ".", the
\* value is the whole normalized value span; a span normalizing to 100.456 gives
\* balance 100.45 and value 100.456.
C6_BalanceClampedValueNot ==
    (pc = "extracted" /\ fields # None) =>
        /\ AfterFirstDot(fields[5]) <= 2
        /\ fields[4] = Strip(Renormalized(ValueSpan(line)))
        /\ line = TruncationLine =>
               /\ fields[4] = <<"1", "0", "0", ".", "4", "5", "6">>
               /\ fields[5] = <<"1", "0", "0", ".", "4", "5">>

\* a record whose balance lost characters and whose value kept three decimals
C6_Witness ==
    /\ pc = "extracted"
    /\ fields # None
    /\ AfterFirstDot(fields[4]) > 2
    /\ AfterFirstDot(Strip(Renormalized(BalanceSpan(line)))) > 2
    /\ Len(fields[5]) < Len(Strip(Renormalized(BalanceSpan(line))))

\* C7: clean_balance is idempotent: applying it to its own result changes nothing.
C7_CleanBalanceIdempotent ==
    \A i \in 2..Len(balance) : balance[i] = balance[i - 1]

\* clean_balance was applied twice and its first application truncated
C7_Witness ==
    /\ Len(balance) >= 2
    /\ balance[1] \notin {money_str, number}

\* C8: convert_money_to_number(s) is s without "$" and ".", with "," as ".",
\* trimmed: no "$", no ",", as many "." as s has ","; $1.234,56 gives 1234.56,
\* $50,00 gives 50.00, and the example line gives its five fields.
C8_ConvertMoney ==
    /\ pc = "converted" =>
           /\ number = Strip(Renormalized(money_str))
           /\ CountOf(number, "$") = 0
           /\ CountOf(number, ",") = 0
           /\ CountOf(number, ".") = CountOf(money_str, ",")
           /\ money_str = MoneyExample1 => number = <<"1", "2", "3", "4", ".", "5", "6">>
           /\ money_str = MoneyExample2 => number = <<"5", "0", ".", "0", "0">>
    /\ (pc = "extracted" /\ line = ExampleLine) =>
           fields = << DateTok,
                       <<"P", "a", "g", "o", " ", "d", "e", " ", "s", "e", "r", "v", "i",
                         "c", "i", "o", "s">>,
                       <<"9", "8", "7", "6", "5", "4">>,
                       <<"1", "0", "0", "0", ".", "0", "0">>,
                       <<"5", "4", "3", "2", ".", "1", "0">> >>

\* a string with "$", "." and "," and blanks at its end has been converted
C8_Witness ==
    /\ pc = "converted"
    /\ CountOf(money_str, "$") > 0
    /\ CountOf(money_str, ".") > 0
    /\ CountOf(money_str, ",") > 0
    /\ money_str[Len(money_str)] = " "
    /\ number # <<>>

-----------------------------------------------------------------------------
(* Specification of the parse pass: pdf_text_to_dataframe on one text *)

\* most raw lines in a text
MaxLines == 3

RawEmpty == <<>>

\* "a 1"
RawOrphan == <<"a", " ", "1">>

\* "01-03-2024 a 1 $1$2"
RawRecord == DateTok \o <<" ", "a", " ", "1", " ", "$", "1", "$", "2">>

\* "01-03-2024 a"
RawHead == DateTok \o <<" ", "a">>

\* "2 $1,0$2,0 "
RawTail == <<"2", " ", "$", "1", ",", "0", "$", "2", ",", "0", " ">>

\* " 01-03-2024 b 3 $1$2"
RawBlankDate == <<" ">> \o DateTok \o <<" ", "b", " ", "3", " ", "$", "1", "$", "2">>

\* "01-03-2024 a $1$2"
RawNoId == DateTok \o <<" ", "a", " ", "$", "1", "$", "2">>

RawLines == {RawEmpty, RawOrphan, RawRecord, RawHead, RawTail, RawBlankDate, RawNoId}

\* the texts of k raw lines: "\n".join of every choice of k raw lines
RECURSIVE TextsOfLines(_)
TextsOfLines(k) ==
    IF k = 1 THEN RawLines
    ELSE {l \o <<"\n">> \o t : l \in RawLines, t \in TextsOfLines(k - 1)}

Texts == UNION {TextsOfLines(k) : k \in 1..MaxLines}

Init ==
    /\ pc = "text"
    /\ text \in Texts
    /\ combined_lines = <<>>
    /\ idx = 0
    /\ data = <<>>
    /\ line = <<>>
    /\ fields = None
    /\ money_str = <<>>
    /\ number = <<>>
    /\ balance = <<>>
    /\ uploaded_files = <<>>
    /\ fi = 0
    /\ temp_files = <<>>
    /\ disk = {}
    /\ texts = <<>>
    /\ total_lines = 0
    /\ dfs = <<>>
    /\ outcome = "none"

\* combined_lines = combine_broken_lines(text); data = []
CombineLines ==
    /\ pc = "text"
    /\ combined_lines' = combine_broken_lines(text)
    /\ data' = <<>>
    /\ idx' = 0
    /\ pc' = "loop"
    /\ UNCHANGED <<text, lineVars, moneyVars, fileVars>>

\* one turn of the loop: the next logical line is extracted and, on a match, appended
ExtractLine ==
    /\ pc = "loop"
    /\ idx < Len(combined_lines)
    /\ line' = combined_lines[idx + 1]
    /\ fields' = extract_fields_from_line(line')
    /\ data' = AppendFields(data, fields')
    /\ idx' = idx + 1
    /\ UNCHANGED <<pc, text, combined_lines, moneyVars, fileVars>>

\* the loop ends; the DataFrame is built from data and returned
BuildFrame ==
    /\ pc = "loop"
    /\ idx = Len(combined_lines)
    /\ pc' = "done"
    /\ UNCHANGED <<text, combined_lines, idx, data, lineVars, moneyVars, fileVars>>

Next == CombineLines \/ ExtractLine \/ BuildFrame

Spec == Init /\ [][Next]_vars

-----------------------------------------------------------------------------
(* Vocabulary of the claims about a text *)

\* the raw lines of the text, cut at every line break
RawLinesOf(t) ==
    LET breaks == {i \in 1..Len(t) : t[i] = "\n"}
        cuts == breaks \cup {0, Len(t) + 1}
        starts == cuts \ {Len(t) + 1}
        NextCut(c) == CHOOSE d \in cuts : d > c /\ \A e \in cuts : e > c => d <= e
        Nth(n) == CHOOSE c \in starts : Cardinality({d \in starts : d < c}) = n - 1
    IN  [n \in 1..Cardinality(starts) |-> SubSeq(t, Nth(n) + 1, NextCut(Nth(n)) - 1)]

NumDateLines(t) ==
    Cardinality({n \in 1..Len(RawLinesOf(t)) : HasLeadingDate(RawLinesOf(t)[n])})

\* the raw lines from the first one that starts with a date on
FromFirstDate(t) ==
    LET ls == RawLinesOf(t)
        dated == {n \in 1..Len(ls) : HasLeadingDate(ls[n])}
    IN  IF dated = {} THEN <<>>
        ELSE SubSeq(ls, CHOOSE n \in dated : \A m \in dated : n <= m, Len(ls))

\* the line breaks of t that stand immediately before a raw line starting with a date
SplitPoints(t) ==
    {i \in 1..Len(t) : t[i] = "\n" /\ HasLeadingDate(SubSeq(t, i + 1, Len(t)))}

\* the successful extractions of the first k logical lines, in their order
Successes(k) ==
    SelectSeq([i \in 1..k |-> extract_fields_from_line(combined_lines[i])],
              LAMBDA f : f # None)

-----------------------------------------------------------------------------
\* C2: every logical line combine_broken_lines returns begins with a date token,
\* also when the text starts with lines that match no date or are empty.
C2_LogicalLinesBeginWithDate ==
    pc # "text" => \A i \in 1..Len(combined_lines) : HasLeadingDate(combined_lines[i])

\* C3: the raw lines before the first date line are discarded: there are at most as
\* many records as date-matching raw lines, and the records are those of the text
\* from its first date line on.
C3_LeadingLinesDiscarded ==
    pc = "done" =>
        /\ Len(data) <= NumDateLines(text)
        /\ data = ExtractLoop(CombineLoop(FromFirstDate(text), <<>>, <<>>), <<>>)

\* C4: splitting the text at a line break that stands before a date line,
\* reconstructing both halves and concatenating gives the logical lines of the
\* whole text.
C4_CombineAssociative ==
    pc # "text" =>
        \A i \in SplitPoints(text) :
            combine_broken_lines(SubSeq(text, 1, i - 1))
                \o combine_broken_lines(SubSeq(text, i + 1, Len(text)))
            = combined_lines

\* a text split after a first half that ends in a continuation line
C4_Witness ==
    /\ pc # "text"
    /\ \E i \in SplitPoints(text) :
           /\ Len(combine_broken_lines(SubSeq(text, 1, i - 1))) = 1
           /\ HasLeadingDate(text)
           /\ CountOf(SubSeq(text, 1, i - 1), "\n") >= 1
           /\ Len(combined_lines) = 2

\* C9: the records are exactly the successful extractions of the logical lines, one
\* per line and in their order; a line that fails adds nothing and does not stop
\* the pass, which reads every logical line (an empty table when nothing matches).
C9_RecordsAreSuccessesInOrder ==
    /\ pc \in {"loop", "done"} => data = Successes(idx)
    /\ pc = "done" => idx = Len(combined_lines)
    /\ pc = "loop" => idx <= Len(combined_lines)

\* the pass ended after a failing logical line that was followed by a matching one
C9_Witness ==
    /\ pc = "done"
    /\ \E i \in 1..Len(combined_lines), j \in 1..Len(combined_lines) :
           /\ i < j
           /\ extract_fields_from_line(combined_lines[i]) = None
           /\ extract_fields_from_line(combined_lines[j]) # None
    /\ Len(data) >= 1

-----------------------------------------------------------------------------
(* Specification of process_uploaded_files: the temporary files of one call *)

\* most uploaded files in a call
MaxFiles == 2

\* what read_pdf_text returns for a saved file: nothing (None and "" are both
\* falsy), a page with no transaction, a page with one transaction
FileTexts == {<<>>, RawOrphan \o <<"\n">>, RawRecord \o <<"\n">>}

\* an uploaded file: whether NamedTemporaryFile and temp.write succeed for it, and
\* the text read back from its temporary copy
UploadedFiles ==
    {[save |-> "create_fails", content |-> <<>>], [save |-> "write_fails", content |-> <<>>]}
    \cup {[save |-> "ok", content |-> c] : c \in FileTexts}

\* process_single_file((file, text))
process_single_file(args) == pdf_text_to_dataframe(args[2])

\* pd.concat(dfs, ignore_index=True): the rows of all tables, in order
RECURSIVE Concat(_)
Concat(tables) == IF tables = <<>> THEN <<>> ELSE Head(tables) \o Concat(Tail(tables))

\* calculate_period raises on a table with no rows: the minimum of an empty date
\* column is NaT, which has no strftime (the dates enumerated here are calendar dates)
CalculatePeriodRaises(df) == df = <<>>

\* for f in temp_files: os.unlink(f)
UnlinkAll(d, names) == d \ {names[i] : i \in 1..Len(names)}

InitFiles ==
    /\ pc = "call"
    /\ uploaded_files \in UNION {[1..k -> UploadedFiles] : k \in 0..MaxFiles}
    /\ fi = 0
    /\ temp_files = <<>>
    /\ disk = {}
    /\ texts = <<>>
    /\ total_lines = 0
    /\ dfs = <<>>
    /\ outcome = "none"
    /\ text = <<>>
    /\ combined_lines = <<>>
    /\ idx = 0
    /\ data = <<>>
    /\ line = <<>>
    /\ fields = None
    /\ money_str = <<>>
    /\ number = <<>>
    /\ balance = <<>>

\* if not uploaded_files: return {}
ReturnNoFiles ==
    /\ pc = "call"
    /\ uploaded_files = <<>>
    /\ outcome' = "returned"
    /\ pc' = "end"
    /\ UNCHANGED <<uploaded_files, fi, temp_files, disk, texts, total_lines, dfs,
                   moneyVars, lineVars, textVars>>

\* one turn of the saving loop; the temporary file is named by the file's position
SaveFile ==
    /\ pc = "call"
    /\ fi < Len(uploaded_files)
    /\ LET uploaded_file == uploaded_files[fi + 1]
           name == fi + 1
       IN  \/ /\ uploaded_file.save = "create_fails"
              /\ UNCHANGED <<temp_files, disk, texts, total_lines>>
           \/ /\ uploaded_file.save = "write_fails"
              /\ disk' = disk \cup {name}
              /\ UNCHANGED <<temp_files, texts, total_lines>>
           \/ /\ uploaded_file.save = "ok"
              /\ disk' = disk \cup {name}
              /\ temp_files' = Append(temp_files, name)
              /\ IF uploaded_file.content # <<>>
                 THEN /\ total_lines' = total_lines + Len(Split(uploaded_file.content, "\n"))
                      /\ texts' = Append(texts, <<name, uploaded_file.content>>)
                 ELSE UNCHANGED <<texts, total_lines>>
    /\ fi' = fi + 1
    /\ UNCHANGED <<pc, uploaded_files, dfs, outcome, moneyVars, lineVars, textVars>>

\* if total_lines == 0: unlink the registered files and return {}
ReturnNoContent ==
    /\ pc = "call"
    /\ uploaded_files # <<>>
    /\ fi = Len(uploaded_files)
    /\ total_lines = 0
    /\ disk' = UnlinkAll(disk, temp_files)
    /\ outcome' = "returned"
    /\ pc' = "end"
    /\ UNCHANGED <<uploaded_files, fi, temp_files, texts, total_lines, dfs,
                   moneyVars, lineVars, textVars>>

\* dfs = list(executor.map(process_single_file, texts))
ParseInPool ==
    /\ pc = "call"
    /\ uploaded_files # <<>>
    /\ fi = Len(uploaded_files)
    /\ total_lines # 0
    /\ dfs' = [i \in 1..Len(texts) |-> process_single_file(texts[i])]
    /\ pc' = "parsed"
    /\ UNCHANGED <<uploaded_files, fi, temp_files, disk, texts, total_lines, outcome,
                   moneyVars, lineVars, textVars>>

\* the worker pool fails (no worker can be started, a worker dies): the error leaves
\* the with block and the function
PoolRaises ==
    /\ pc = "call"
    /\ uploaded_files # <<>>
    /\ fi = Len(uploaded_files)
    /\ total_lines # 0
    /\ outcome' = "raised"
    /\ pc' = "end"
    /\ UNCHANGED <<uploaded_files, fi, temp_files, disk, texts, total_lines, dfs,
                   moneyVars, lineVars, textVars>>

\* consolidated_df = pd.concat(dfs); period = calculate_period(consolidated_df)
Consolidate ==
    /\ pc = "parsed"
    /\ IF CalculatePeriodRaises(Concat(dfs))
       THEN outcome' = "raised" /\ pc' = "end"
       ELSE outcome' = outcome /\ pc' = "excel"
    /\ UNCHANGED <<uploaded_files, fi, temp_files, disk, texts, total_lines, dfs,
                   moneyVars, lineVars, textVars>>

\* convert_df_to_excel succeeds; the registered files are unlinked; the result is
\* returned
WriteExcelAndReturn ==
    /\ pc = "excel"
    /\ disk' = UnlinkAll(disk, temp_files)
    /\ outcome' = "returned"
    /\ pc' = "end"
    /\ UNCHANGED <<uploaded_files, fi, temp_files, texts, total_lines, dfs,
                   moneyVars, lineVars, textVars>>

\* convert_df_to_excel fails (the xlsxwriter engine is missing, the buffer cannot be
\* written): the error leaves the function
ExcelRaises ==
    /\ pc = "excel"
    /\ outcome' = "raised"
    /\ pc' = "end"
    /\ UNCHANGED <<uploaded_files, fi, temp_files, disk, texts, total_lines, dfs,
                   moneyVars, lineVars, textVars>>

NextFiles ==
    \/ ReturnNoFiles
    \/ SaveFile
    \/ ReturnNoContent
    \/ ParseInPool
    \/ PoolRaises
    \/ Consolidate
    \/ WriteExcelAndReturn
    \/ ExcelRaises

SpecFiles == InitFiles /\ [][NextFiles]_vars

-----------------------------------------------------------------------------
\* C10: every temporary file a call of process_uploaded_files created is deleted
\* when the call ends, whether it returns or an error leaves it.
C10_TempFilesDeletedAtEnd ==
    pc = "end" => disk = {}

====
